---- MODULE Spec2Model ----
(***************************************************************************)
(* A model of the dashboard's client-side core: the mock authentication    *)
(* and session manager (login script) and the task store with its          *)
(* completion tracker (dashboard script), both over the browser's          *)
(* localStorage.                                                           *)
(*                                                                         *)
(* A JavaScript string is a sequence of one-character strings, so that the *)
(* regular expressions, trim, split and btoa are computed, not assumed.    *)
(* A localStorage item is a record whose kind is "absent" (getItem gives   *)
(* null), "garbage" (a non-empty string JSON.parse rejects) or "json".     *)
(***************************************************************************)
EXTENDS Integers, Sequences, FiniteSets, TLC

\* ------------------------------------------------------------------ bounds
\* how many times the clock may advance in a run of the session manager
MaxTicks == 3
\* how many times the clock may advance in a run of the credential store
MaxAuthTicks == 1
\* how many accounts appUsers may hold
MaxUsers == 2
\* how many setTimeout callbacks may be pending
MaxTimers == 1
\* how many entries a task list may hold
MaxTasks == 3
\* how many entries the three task collections may hold together when every
\* route is open
MaxRouted == 3
\* how many times the clock may advance in a run of the task routes
MaxTaskTicks == 1
\* the longest today list the completion tracker is run on
MaxToday == 40
\* the longest today list two tabs and the today page write to
MaxSynced == 2
\* how many characters a password has after its first six
MaxSuffix == 3

\* --------------------------------------------------------------- constants
\* AUTH_CONFIG.SESSION_TIMEOUT: 24 * 60 * 60 * 1000
SESSION_TIMEOUT == 86400000
\* the delay of the setTimeout calls of handleLogin and handleSignUp
REDIRECT_DELAY == 500
\* the milliseconds of a calendar day, which toISOString().split('T')[0] cuts time into
MS_PER_DAY == 86400000

\* -------------------------------------------------------------- characters
LowerChars ==
  {"a","b","c","d","e","f","g","h","i","j","k","l","m",
   "n","o","p","q","r","s","t","u","v","w","x","y","z"}
UpperChars ==
  {"A","B","C","D","E","F","G","H","I","J","K","L","M",
   "N","O","P","Q","R","S","T","U","V","W","X","Y","Z"}
DigitChars == {"0","1","2","3","4","5","6","7","8","9"}
\* The line separator U+2028: white space and a line terminator, and not
\* among the newlines a form field strips from its value.
LineSeparator == "U+2028"
\* \s of a JavaScript regular expression (the members a form field can hold)
SpaceChars == {" ", "\t", "\n", "\r", LineSeparator}
\* the line terminators, which the dot of a regular expression does not match
LineTerminators == {"\n", "\r", LineSeparator}
\* \w of a JavaScript regular expression
WordChars == LowerChars \cup UpperChars \cup DigitChars \cup {"_"}

\* The printable ASCII characters in code order: AsciiTable[i] has code 31 + i
\* (the grave accent, code 96, is written U+0060).
AsciiTable ==
  << " ", "!", "\"", "#", "$", "%", "&", "'", "(", ")", "*", "+", ",", "-", ".", "/",
     "0", "1", "2", "3", "4", "5", "6", "7", "8", "9", ":", ";", "<", "=", ">", "?",
     "@", "A", "B", "C", "D", "E", "F", "G", "H", "I", "J", "K", "L", "M", "N", "O",
     "P", "Q", "R", "S", "T", "U", "V", "W", "X", "Y", "Z", "[", "\\", "]", "^", "_",
     "U+0060", "a", "b", "c", "d", "e", "f", "g", "h", "i", "j", "k", "l", "m", "n", "o",
     "p", "q", "r", "s", "t", "u", "v", "w", "x", "y", "z", "{", "|", "}", "~" >>

\* The euro sign U+20AC, one UTF-16 unit outside Latin-1.
EuroChar == "U+20AC"

AsciiCode ==
  [c \in {AsciiTable[i] : i \in 1..Len(AsciiTable)} |->
     31 + (CHOOSE i \in 1..Len(AsciiTable) : AsciiTable[i] = c)]

\* The UTF-16 code unit of a character.
CharCode(c) ==
  IF c \in DOMAIN AsciiCode THEN AsciiCode[c]
    ELSE IF c = "\t" THEN 9
    ELSE IF c = "\n" THEN 10
    ELSE IF c = "\r" THEN 13
    ELSE 8364

\* ----------------------------------------------------------------- strings
\* String.prototype.trim
RECURSIVE TrimLeft(_)
TrimLeft(s) ==
  IF s # <<>> /\ Head(s) \in SpaceChars THEN TrimLeft(Tail(s)) ELSE s

RECURSIVE TrimRight(_)
TrimRight(s) ==
  IF s # <<>> /\ s[Len(s)] \in SpaceChars
    THEN TrimRight(SubSeq(s, 1, Len(s) - 1))
    ELSE s

\* trim that strips nothing
NoTrim(s) == s

Trim(s) == TrimRight(TrimLeft(s))

\* email.split('@')[0]: the text before the first at-sign (all of it without one)
RECURSIVE BeforeAt(_)
BeforeAt(s) ==
  IF s = <<>> \/ Head(s) = "@" THEN <<>> ELSE <<Head(s)>> \o BeforeAt(Tail(s))

\* window.btoa: base64 of the characters' codes; it throws on a code over 255.
Base64Chars ==
  << "A", "B", "C", "D", "E", "F", "G", "H", "I", "J", "K", "L", "M", "N", "O", "P",
     "Q", "R", "S", "T", "U", "V", "W", "X", "Y", "Z", "a", "b", "c", "d", "e", "f",
     "g", "h", "i", "j", "k", "l", "m", "n", "o", "p", "q", "r", "s", "t", "u", "v",
     "w", "x", "y", "z", "0", "1", "2", "3", "4", "5", "6", "7", "8", "9", "+", "/" >>

RECURSIVE Base64(_)
Base64(b) ==
  IF Len(b) = 0 THEN <<>>
  ELSE IF Len(b) = 1 THEN
    << Base64Chars[(b[1] \div 4) + 1], Base64Chars[((b[1] % 4) * 16) + 1], "=", "=" >>
  ELSE IF Len(b) = 2 THEN
    << Base64Chars[(b[1] \div 4) + 1],
       Base64Chars[((b[1] % 4) * 16) + (b[2] \div 16) + 1],
       Base64Chars[((b[2] % 16) * 4) + 1], "=" >>
  ELSE
    << Base64Chars[(b[1] \div 4) + 1],
       Base64Chars[((b[1] % 4) * 16) + (b[2] \div 16) + 1],
       Base64Chars[((b[2] % 16) * 4) + (b[3] \div 64) + 1],
       Base64Chars[(b[3] % 64) + 1] >> \o Base64(SubSeq(b, 4, Len(b)))

BtoaThrows(s) == \E i \in 1..Len(s) : CharCode(s[i]) > 255

btoa(s) == Base64([i \in 1..Len(s) |-> CharCode(s[i])])

\* -------------------------------------------------------------- validation
\* validateEmail: /^[^\s@]+@[^\s@]+\.[^\s@]+$/
validateEmail(email) ==
  /\ \A i \in 1..Len(email) : email[i] \notin SpaceChars
  /\ Cardinality({i \in 1..Len(email) : email[i] = "@"}) = 1
  /\ \E a \in 1..Len(email) :
       /\ email[a] = "@"
       /\ a > 1
       /\ \E d \in (a + 2)..(Len(email) - 1) : email[d] = "."

\* validatePassword: /^(?=.*[a-z])(?=.*[A-Z])(?=.*\d)(?=.*[^\w\s]).{8,}$/
validatePassword(password) ==
  /\ \A i \in 1..Len(password) : password[i] \notin LineTerminators
  /\ Len(password) >= 8
  /\ \E i \in 1..Len(password) : password[i] \in LowerChars
  /\ \E i \in 1..Len(password) : password[i] \in UpperChars
  /\ \E i \in 1..Len(password) : password[i] \in DigitChars
  /\ \E i \in 1..Len(password) : password[i] \notin WordChars /\ password[i] \notin SpaceChars

\* validatePasswordsMatch
validatePasswordsMatch(password, confirm) == password = confirm

\* ---------------------------------------------------------------- the state
VARIABLES
  now,              \* what Date.now() returns, in ms from the first page load
  ticks,            \* how many more times the clock may advance in this run
  authSession,      \* localStorage item authSession
  isAuthenticated,  \* localStorage item isAuthenticated
  appUsers,         \* localStorage item appUsers
  timers,           \* the pending setTimeout callbacks, in the order they were set
  shown,            \* the messages the login page shows
  location,         \* window.location.href as last assigned
  call              \* the last operation run: its arguments and its outcome

VARIABLES
  tasksItem,        \* localStorage item tasks
  todayItem,        \* localStorage item todayTodos
  weekItem,         \* localStorage item weekTasks
  tasks,            \* each browsing context's in-memory array tasks
  open,             \* the browsing contexts whose DOMContentLoaded handler has run
  rate,             \* each context's displayed completion rate
  pending,          \* the contexts a storage event is on its way to
  tcall             \* the last operation of the dashboard script

\* the clock is shared by both scripts
clockVars == <<now, ticks>>
loginVars == <<authSession, isAuthenticated, appUsers, timers, shown, location, call>>
taskVars == <<tasksItem, todayItem, weekItem, tasks, open, rate, pending, tcall>>
vars == <<clockVars, loginVars, taskVars>>

\* ------------------------------------------------------------ localStorage
\* getItem gives null
NoItem(blank) == [kind |-> "absent", val |-> blank]
\* a stored string that JSON.parse rejects
GarbageItem(blank) == [kind |-> "garbage", val |-> blank]
\* a stored string that JSON.parse accepts and that is no array, such as {}
ObjectItem(blank) == [kind |-> "object", val |-> blank]
\* JSON.stringify(v), as stored by setItem
JSONstringify(v) == [kind |-> "json", val |-> v]
\* whether JSON.parse(item) throws a SyntaxError
ParseThrows(item) == item.kind = "garbage"
\* JSON.parse of an item it accepts
JSONparse(item) == item.val

NoSessionData ==
  [email |-> <<>>, name |-> <<>>, method |-> "", loginTime |-> 0, expiresAt |-> 0]
NoUsers == <<>>

\* Two successive reads of Date.now(): the clock may advance between them.
ClockReads ==
  {<<now, now>>} \cup (IF ticks > 0 THEN {<<now, now + 1>>} ELSE {})

\* The clock after the reads r of one handler.
ClockAfter(r) == /\ now' = r[2]
                 /\ ticks' = ticks - (r[2] - now)

\* -------------------------------------------------------- session manager
\* createSession: the session object (loginTime and expiresAt are two reads)
SessionData(userEmail, userName, method, r) ==
  [email |-> userEmail, name |-> userName, method |-> method,
   loginTime |-> r[1], expiresAt |-> r[2] + SESSION_TIMEOUT]

\* createSession: both items written
createSession(userEmail, userName, method, r) ==
  /\ authSession' = JSONstringify(SessionData(userEmail, userName, method, r))
  /\ isAuthenticated' = "true"

\* clearSession without the removal of isAuthenticated
clearSessionRecordOnly ==
  /\ authSession' = NoItem(NoSessionData)
  /\ UNCHANGED isAuthenticated

\* clearSession: both items removed
clearSession ==
  /\ authSession' = NoItem(NoSessionData)
  /\ isAuthenticated' = "absent"

\* the expiry test with the boundary counted as expired
SessionExpiredAtBoundary(data, t) == data.expiresAt <= t

\* getSession: the expiry test on the parsed session
SessionExpired(data, t) == data.expiresAt < t

\* getSession: the path it takes for the stored item at time t; it returns the
\* session on the path "session" and null on the other three
GetSessionResult(item, t) ==
  IF item.kind = "absent" THEN "absent"
  ELSE IF ParseThrows(item) THEN "corrupt"
  ELSE IF SessionExpired(JSONparse(item), t) THEN "expired"
  ELSE "session"

\* getSession: whether it clears the record (the expired and the catch paths)
GetSessionClears(item, t) ==
  /\ item.kind # "absent"
  /\ ParseThrows(item) \/ SessionExpired(JSONparse(item), t)

\* getSession: its effect on the store
getSession ==
  IF GetSessionClears(authSession, now)
    THEN clearSession
    ELSE UNCHANGED <<authSession, isAuthenticated>>

\* The record of the last operation of the login script: what ran, how it
\* ended and the session it returned or wrote.
Call(op, result, ret) == [op |-> op, result |-> result, ret |-> ret]

\* a direct call of getSession()
GetSession ==
  /\ getSession
  /\ call' = Call("getSession", GetSessionResult(authSession, now),
                  IF GetSessionResult(authSession, now) = "session"
                    THEN JSONparse(authSession) ELSE NoSessionData)
  /\ UNCHANGED <<now, ticks, appUsers, timers, shown, location>>
  /\ UNCHANGED taskVars

\* a direct call of clearSession()
ClearSession ==
  /\ clearSession
  /\ call' = Call("clearSession", "done", NoSessionData)
  /\ UNCHANGED <<now, ticks, appUsers, timers, shown, location>>
  /\ UNCHANGED taskVars

\* checkAuthOnLoad: isAuthenticated() is getSession() !== null, then the redirect
CheckAuthOnLoad ==
  /\ getSession
  /\ location' = IF GetSessionResult(authSession, now) = "session"
                   THEN "to-do-project.html" ELSE location
  /\ call' = Call("checkAuthOnLoad", GetSessionResult(authSession, now),
                  NoSessionData)
  /\ UNCHANGED <<now, ticks, appUsers, timers, shown>>
  /\ UNCHANGED taskVars

\* the logout handler without the removal of isAuthenticated
LogoutKeepsFlag ==
  /\ authSession' = NoItem(NoSessionData)
  /\ location' = "login.html"
  /\ call' = Call("logout", "done", NoSessionData)
  /\ UNCHANGED <<now, ticks, isAuthenticated, appUsers, timers, shown>>
  /\ UNCHANGED taskVars

\* the click handler of logoutBtn on the dashboard
Logout ==
  /\ authSession' = NoItem(NoSessionData)
  /\ isAuthenticated' = "absent"
  /\ location' = "login.html"
  /\ call' = Call("logout", "done", NoSessionData)
  /\ UNCHANGED <<now, ticks, appUsers, timers, shown>>
  /\ UNCHANGED taskVars

\* ------------------------------------------------------------ login script
\* showErrorMessage(fieldId, message)
ErrorMessage(fieldId, message) == [id |-> fieldId, text |-> message, success |-> FALSE]
\* no check failed: nothing to show
NoError == [id |-> "", text |-> "", success |-> FALSE]
\* showFormMessage(formId, message, true)
FormMessage(formId, message) ==
  [id |-> IF formId = "login" THEN "loginMessage" ELSE "signupMessage",
   text |-> message, success |-> TRUE]

\* setTimeout(callback, 500): the callback's captured email and name, and when it is due
Timer(email, name, t) == [email |-> email, name |-> name, due |-> t + REDIRECT_DELAY]

\* the users list read by the handlers: JSON.parse(getItem('appUsers') || '[]')
StoredUsers(item) == IF item.kind = "absent" THEN NoUsers ELSE JSONparse(item)

\* the duplicate test that finds nothing
EmailNeverRegistered(storedUsers, email) == FALSE

\* storedUsers.some(u => u.email === email)
EmailRegistered(storedUsers, email) ==
  \E i \in 1..Len(storedUsers) : storedUsers[i].email = email

\* handleLogin: the two input checks, in order; the message shown, or NoError
LoginValidation(email, password) ==
  IF email = <<>> \/ ~validateEmail(email)
    THEN ErrorMessage("loginEmailError", "Please enter a valid email")
  ELSE IF password = <<>>
    THEN ErrorMessage("loginPasswordError", "Password is required")
  ELSE NoError

\* handleLogin: whether the find callback throws (btoa runs for a user whose
\* email matches)
LoginFindThrows(storedUsers, email, password) ==
  EmailRegistered(storedUsers, email) /\ BtoaThrows(password)

\* handleLogin: the indexes of the users the find callback accepts
LoginMatches(storedUsers, email, password) ==
  {i \in 1..Len(storedUsers) :
     storedUsers[i].email = email /\ storedUsers[i].password = btoa(password)}

\* handleLogin: the name the session gets
LoginName(storedUsers, email, password) ==
  LET m == LoginMatches(storedUsers, email, password)
  IN IF m # {}
       THEN storedUsers[CHOOSE i \in m : \A j \in m : i <= j].name
       ELSE BeforeAt(email)

handleLogin(email, password) ==
  LET v == LoginValidation(email, password)
      storedUsers == StoredUsers(appUsers)
  IN IF v # NoError THEN
       /\ shown' = {v}
       /\ call' = Call("handleLogin", "invalid", NoSessionData)
       /\ UNCHANGED timers
     ELSE IF ParseThrows(appUsers) \/ LoginFindThrows(storedUsers, email, password) THEN
       /\ shown' = {}
       /\ call' = Call("handleLogin", "throw", NoSessionData)
       /\ UNCHANGED timers
     ELSE
       /\ Len(timers) < MaxTimers
       /\ shown' = {FormMessage("login",
                      IF LoginMatches(storedUsers, email, password) # {}
                        THEN "Logging in..."
                        ELSE "Login successful! Redirecting...")}
       /\ timers' = Append(timers, Timer(email, LoginName(storedUsers, email, password), now))
       /\ call' = Call("handleLogin", "ok", NoSessionData)

\* the input checks with the email checked before the name
SignUpValidationEmailFirst(name, email, password, confirmPassword) ==
  IF email = <<>> \/ ~validateEmail(email)
    THEN ErrorMessage("signupEmailError", "Please enter a valid email")
  ELSE IF name = <<>> \/ Len(Trim(name)) < 2
    THEN ErrorMessage("signupNameError", "Name must be at least 2 characters")
  ELSE IF password = <<>> \/ ~validatePassword(password)
    THEN ErrorMessage("signupPasswordError", "Password must be at least 8 characters and include an uppercase letter, a number, and a special character")
  ELSE IF confirmPassword = <<>> \/ ~validatePasswordsMatch(password, confirmPassword)
    THEN ErrorMessage("signupConfirmError", "Passwords do not match")
  ELSE NoError

\* handleSignUp: the four input checks, in order; the message shown, or NoError
SignUpValidation(name, email, password, confirmPassword) ==
  IF name = <<>> \/ Len(Trim(name)) < 2
    THEN ErrorMessage("signupNameError", "Name must be at least 2 characters")
  ELSE IF email = <<>> \/ ~validateEmail(email)
    THEN ErrorMessage("signupEmailError", "Please enter a valid email")
  ELSE IF password = <<>> \/ ~validatePassword(password)
    THEN ErrorMessage("signupPasswordError", "Password must be at least 8 characters and include an uppercase letter, a number, and a special character")
  ELSE IF confirmPassword = <<>> \/ ~validatePasswordsMatch(password, confirmPassword)
    THEN ErrorMessage("signupConfirmError", "Passwords do not match")
  ELSE NoError

\* handleSignUp: the new user object (id and createdAt are two reads of the clock)
NewUser(name, email, password, r) ==
  [id |-> r[1], name |-> name, email |-> email, password |-> btoa(password),
   createdAt |-> r[2]]

handleSignUp(name, email, password, confirmPassword) ==
  LET v == SignUpValidation(name, email, password, confirmPassword)
      storedUsers == StoredUsers(appUsers)
  IN IF v # NoError THEN
       /\ shown' = {v}
       /\ call' = Call("handleSignUp", "invalid", NoSessionData)
       /\ UNCHANGED <<now, ticks, appUsers, timers>>
     ELSE IF ParseThrows(appUsers) THEN
       /\ shown' = {}
       /\ call' = Call("handleSignUp", "throw", NoSessionData)
       /\ UNCHANGED <<now, ticks, appUsers, timers>>
     ELSE IF EmailRegistered(storedUsers, email) THEN
       /\ shown' = {ErrorMessage("signupEmailError", "Email already registered")}
       /\ call' = Call("handleSignUp", "invalid", NoSessionData)
       /\ UNCHANGED <<now, ticks, appUsers, timers>>
     ELSE IF BtoaThrows(password) THEN
       /\ shown' = {}
       /\ call' = Call("handleSignUp", "throw", NoSessionData)
       /\ UNCHANGED <<now, ticks, appUsers, timers>>
     ELSE
       /\ Len(storedUsers) < MaxUsers
       /\ Len(timers) < MaxTimers
       /\ \E r \in ClockReads :
            /\ appUsers' = JSONstringify(Append(storedUsers, NewUser(name, email, password, r)))
            /\ timers' = Append(timers, Timer(email, name, r[2]))
            /\ ClockAfter(r)
       /\ shown' = {FormMessage("signup", "Account created! Logging in...")}
       /\ call' = Call("handleSignUp", "ok", NoSessionData)

\* the callback of setTimeout: createSession, then redirectToDashboard
TimerFire ==
  /\ timers # <<>>
  /\ now >= Head(timers).due
  /\ \E r \in ClockReads :
       /\ createSession(Head(timers).email, Head(timers).name, "email", r)
       /\ ClockAfter(r)
       /\ call' = Call("createSession", "done", SessionData(Head(timers).email, Head(timers).name, "email", r))
  /\ timers' = Tail(timers)
  /\ location' = "to-do-project.html"
  /\ UNCHANGED <<appUsers, shown>>
  /\ UNCHANGED taskVars

\* ------------------------------------------------------------------ inputs
Str_al == <<"a", "l", "@", "x", ".", "c", "o", "m">>
Str_bo == <<"b", "o", "@", "x", ".", "c", "o", "m">>
Str_other == <<"A", "b", "c", "d", "e", "f", "1", "?">>
Names == {<<" ", "A", " ">>, <<"A", "l">>}
Emails == {Str_al, Str_bo, <<"a", "l", "@", "x">>}
Passwords ==
  {<<"a", "b", "c", "d", "e", "f", "g", "h">>,
   <<"A", "b", "c", "d", "e", "f", "1", "!">>,
   <<"A", "a", "1", EuroChar, "a", "a", "a", "a">>}
\* how far the clock advances at once: a millisecond, or a session's life
ClockSteps == {1, SESSION_TIMEOUT}

\* the login form is submitted
HandleLogin ==
  /\ \E email \in Emails, password \in Passwords \cup {<<>>} :
       handleLogin(email, password)
  /\ UNCHANGED <<now, ticks, authSession, isAuthenticated, appUsers, location>>
  /\ UNCHANGED taskVars

\* the signup form is submitted
HandleSignUp ==
  /\ \E name \in Names, email \in Emails, password \in Passwords :
       \E confirmPassword \in {password, Str_other} :
          handleSignUp(name, email, password, confirmPassword)
  /\ UNCHANGED <<authSession, isAuthenticated, location>>
  /\ UNCHANGED taskVars

\* time passes
Tick ==
  /\ ticks > 0
  /\ \E d \in ClockSteps : now' = now + d
  /\ ticks' = ticks - 1
  /\ call' = Call("tick", "done", NoSessionData)
  /\ UNCHANGED <<authSession, isAuthenticated, appUsers, timers, shown, location>>
  /\ UNCHANGED taskVars

\* time passes until the first pending timer is due
Wait ==
  /\ ticks > 0
  /\ timers # <<>>
  /\ now < Head(timers).due
  /\ now' = Head(timers).due
  /\ ticks' = ticks - 1
  /\ call' = Call("wait", "done", NoSessionData)
  /\ UNCHANGED <<authSession, isAuthenticated, appUsers, timers, shown, location>>
  /\ UNCHANGED taskVars

\* The store as the first page load finds it: items written by earlier visits
\* or damaged since; the flag mirrors the presence of the session item.
LoginInit ==
  /\ authSession \in {NoItem(NoSessionData), GarbageItem(NoSessionData)}
  /\ isAuthenticated = IF authSession.kind = "absent" THEN "absent" ELSE "true"
  /\ appUsers \in {NoItem(NoUsers), GarbageItem(NoUsers)}
  /\ timers = <<>>
  /\ shown = {}
  /\ location = "login.html"
  /\ call = Call("none", "none", NoSessionData)


\* the passwords the sign-up form may hold: six characters and up to MaxSuffix
\* more, of every class the policy tells apart
PasswordStems ==
  {<<"a", "b", "c", "d", "e", "f">>, <<"A", "b", "c", "d", "e", "1">>,
   <<"A", "B", "C", "D", "E", "1">>}
PasswordChars == {"a", "B", "1", "!", "_", " ", LineSeparator}
PasswordInputs ==
  Passwords \cup
    UNION {{stem \o suffix : stem \in PasswordStems, suffix \in [1..n -> PasswordChars]} :
             n \in 0..MaxSuffix}

\* a password is in the field signupPassword
PasswordInit ==
  /\ authSession = NoItem(NoSessionData)
  /\ isAuthenticated = "absent"
  /\ appUsers = NoItem(NoUsers)
  /\ timers = <<>>
  /\ shown = {}
  /\ location = "login.html"
  /\ call \in {Call("input", "none", password) : password \in PasswordInputs}

\* validatePassword is called with the field's value
ValidatePassword ==
  /\ call.op = "input"
  /\ call' = Call("validatePassword",
                  IF validatePassword(call.ret) THEN "valid" ELSE "invalid", call.ret)
  /\ UNCHANGED <<authSession, isAuthenticated, appUsers, timers, shown, location>>
  /\ UNCHANGED clockVars
  /\ UNCHANGED taskVars

\* -------------------------------------------------------------- task store
Contexts == {"c1", "c2"}

NoTasks == <<>>
NoTodos == <<>>
\* the empty object {}; an object is the sequence of its properties, in insertion
\* order, each a day key with the array under it
NoWeek == <<>>
\* weekTasks[dayKey]: the index of the property dayKey, 0 for none (undefined)
Bucket(weekTasks, dayKey) ==
  IF \E i \in 1..Len(weekTasks) : weekTasks[i].day = dayKey
    THEN CHOOSE i \in 1..Len(weekTasks) : weekTasks[i].day = dayKey
    ELSE 0

\* indexOf finding the last occurrence
LastIndexOf(seq, text) ==
  IF \E i \in 1..Len(seq) : seq[i] = text
    THEN CHOOSE i \in 1..Len(seq) : seq[i] = text /\ \A j \in (i + 1)..Len(seq) : seq[j] # text
    ELSE 0

\* tasks.indexOf(text): the first index holding text, 0 for none (-1 in JavaScript)
IndexOf(seq, text) ==
  IF \E i \in 1..Len(seq) : seq[i] = text
    THEN CHOOSE i \in 1..Len(seq) : seq[i] = text /\ \A j \in 1..(i - 1) : seq[j] # text
    ELSE 0

\* tasks.splice(idx, 1)
Splice(seq, idx) == SubSeq(seq, 1, idx - 1) \o SubSeq(seq, idx + 1, Len(seq))

\* new Date().toISOString().split('T')[0]: the UTC calendar day of time t
DayKey(t) == t \div MS_PER_DAY

\* loadTasks: the array tasks after it, given the stored item and the array before
LoadedTasks(item, before) ==
  IF item.kind = "absent" THEN before
  ELSE IF ParseThrows(item) THEN NoTasks
  ELSE JSONparse(item)

\* the arrays the routes of addTask and updateCompletionRate start from:
\* the parsed item, or the empty default when it is absent or unparseable
ParsedOr(item, default) ==
  IF item.kind = "absent" \/ ParseThrows(item) THEN default ELSE JSONparse(item)

\* IEEE 754 binary64, the Number type. A positive value is an integer of 53
\* significant bits, held in three limbs h * 2^34 + m * 2^17 + l with m and l
\* below 2^17, scaled by 2^-(place + 52).
Carry(h, m, l) ==
  LET m2 == m + (l \div (2^17))
  IN [h |-> h + (m2 \div (2^17)), m |-> m2 % (2^17), l |-> l % (2^17)]

\* the place of the first 1 bit of x / y for 0 < x < y
RECURSIVE LeadingPlace(_, _)
LeadingPlace(x, y) == IF 2 * x >= y THEN 1 ELSE 1 + LeadingPlace(2 * x, y)

\* x / y in binary64 for 0 < x < y < 2^12: 52 fraction bits by long division
\* in three steps, rounded to nearest, ties to even
DoubleDivide(x, y) ==
  LET k == LeadingPlace(x, y)
      n0 == (x * (2^k)) - y
      d1 == (n0 * (2^18)) \div y
      r1 == (n0 * (2^18)) % y
      d2 == (r1 * (2^17)) \div y
      r2 == (r1 * (2^17)) % y
      d3 == (r2 * (2^17)) \div y
      r3 == (r2 * (2^17)) % y
      up == (2 * r3 > y) \/ (2 * r3 = y /\ d3 % 2 = 1)
  IN [limbs |-> Carry((2^18) + d1, d2, d3 + (IF up THEN 1 ELSE 0)), place |-> k]

\* v * 100 in binary64: the exact product, rounded to 53 significant bits
DoubleTimes100(v) ==
  LET p == Carry(v.limbs.h * 100, v.limbs.m * 100, v.limbs.l * 100)
      drop == IF p.h < 2^25 THEN 6 ELSE 7
      rem == p.l % (2^drop)
      half == 2^(drop - 1)
      up == rem > half \/ (rem = half /\ (p.l \div (2^drop)) % 2 = 1)
  IN [limbs |-> Carry(p.h, p.m, (p.l - rem) + (IF up THEN 2^drop ELSE 0)),
      place |-> v.place]

\* Math.round(v): floor(v + 1/2)
MathRound(v) ==
  (v.limbs.h + (2^(v.place + 17))) \div (2^(v.place + 18))

\* Math.round((x / y) * 100) for 0 <= x <= y, y > 0: the quotient, then its
\* product with 100, then the rounding, each a value before the next step
RoundPercent(x, y) ==
  IF x = 0 THEN 0
  ELSE IF x = y THEN 100
  ELSE CHOOSE percent \in
         {MathRound(product) :
            product \in {DoubleTimes100(quotient) :
                           quotient \in {DoubleDivide(x, y)}}} : TRUE

\* updateCompletionRate: the numbers it displays
CompletionRate(item) ==
  LET todayTodos == ParsedOr(item, NoTodos)
      completed == Cardinality({i \in 1..Len(todayTodos) : todayTodos[i].completed})
      total == Len(todayTodos)
  IN [completed |-> completed, total |-> total,
      percent |-> IF total = 0 THEN 0 ELSE RoundPercent(completed, total)]

NoRate == [completed |-> 0, total |-> 0, percent |-> 0]

\* The record of the last operation of the dashboard script.
TCall(op, c, dest, result) == [op |-> op, ctx |-> c, dest |-> dest, result |-> result]

\* a setItem by context c that changes an item: the other contexts get a storage event
Notify(c, changed) == pending' = IF changed THEN pending \cup (Contexts \ {c}) ELSE pending

\* saveTasks without its setItem
saveTasksSkipped(array) == tasksItem' = tasksItem

\* saveTasks keeping what the item tasks holds beside the array
saveTasksMerged(array) ==
  tasksItem' = JSONstringify(array \o SelectSeq(ParsedOr(tasksItem, NoTasks),
                 LAMBDA text : \A i \in 1..Len(array) : array[i] # text))

\* saveTasks: the array tasks written to the item tasks
saveTasks(array) == tasksItem' = JSONstringify(array)

\* loadTasks: tasks.forEach throws a TypeError when the parsed value is no array
LoadThrows(item) == item.kind = "object"

\* DOMContentLoaded of the dashboard in context c: a fresh script (tasks = []),
\* then loadTasks and updateCompletionRate. When loadTasks throws, the handler
\* ends there: tasks holds the parsed object, on which the local route throws
\* too, and the context takes no further part.
PageLoad(c) ==
  IF LoadThrows(tasksItem) THEN
    /\ tasks' = [tasks EXCEPT ![c] = NoTasks]
    /\ rate' = [rate EXCEPT ![c] = NoRate]
    /\ open' = open \ {c}
    /\ pending' = pending \ {c}
    /\ tcall' = TCall("loadTasks", c, "", "throw")
    /\ UNCHANGED <<tasksItem, todayItem, weekItem, clockVars>>
  ELSE
    /\ tasks' = [tasks EXCEPT ![c] = LoadedTasks(tasksItem, NoTasks)]
    /\ rate' = [rate EXCEPT ![c] = CompletionRate(todayItem)]
    /\ open' = open \cup {c}
    /\ pending' = pending \ {c}
    /\ tcall' = TCall("loadTasks", c, "", "done")
    /\ UNCHANGED <<tasksItem, todayItem, weekItem, clockVars>>

\* a today entry that is born completed
TodayTaskCompleted(text, r) ==
  [id |-> r[1], text |-> text, completed |-> TRUE, priority |-> "normal",
   createdAt |-> r[2]]

\* addTask, route today: the new entry (id and createdAt are two reads of the clock)
TodayTask(text, r) ==
  [id |-> r[1], text |-> text, completed |-> FALSE, priority |-> "normal",
   createdAt |-> r[2]]

\* addTask, route future: the new entry
FutureTask(text, t) == [id |-> t, text |-> text, completed |-> FALSE]

\* the future route opening a new bucket on every add
WeekWithNewBucket(weekTasks, dayKey, entry) ==
  Append(weekTasks, [day |-> dayKey, entries |-> <<entry>>])

\* addTask, route future: the week map with the entry pushed under dayKey
WeekWith(weekTasks, dayKey, entry) ==
  LET i == Bucket(weekTasks, dayKey)
  IN IF i = 0
       THEN Append(weekTasks, [day |-> dayKey, entries |-> <<entry>>])
       ELSE [weekTasks EXCEPT ![i].entries = Append(@, entry)]

\* addTask taking the local route whatever the selector holds
addTaskAlwaysLocal(c, input, dest) ==
  LET text == Trim(input)
  IN IF text = <<>> THEN
       /\ tcall' = TCall("addTask", c, dest, "empty")
       /\ UNCHANGED <<tasksItem, todayItem, weekItem, tasks, pending, clockVars>>
     ELSE
       /\ Len(tasks[c]) < MaxTasks
       /\ tasks' = [tasks EXCEPT ![c] = Append(tasks[c], text)]
       /\ saveTasks(tasks'[c])
       /\ Notify(c, tasksItem' # tasksItem)
       /\ tcall' = TCall("addTask", c, dest, "added")
       /\ UNCHANGED <<todayItem, weekItem, clockVars>>

\* addTask in context c with the input field holding input and the selector on dest
addTask(c, input, dest) ==
  LET text == Trim(input)
  IN IF text = <<>> THEN
       /\ tcall' = TCall("addTask", c, dest, "empty")
       /\ UNCHANGED <<tasksItem, todayItem, weekItem, tasks, pending, clockVars>>
     ELSE IF dest = "today" THEN
       /\ Len(ParsedOr(todayItem, NoTodos)) < MaxTasks
       /\ \E r \in ClockReads :
            /\ todayItem' = JSONstringify(Append(ParsedOr(todayItem, NoTodos), TodayTask(text, r)))
            /\ ClockAfter(r)
       /\ Notify(c, TRUE)
       /\ tcall' = TCall("addTask", c, dest, "added")
       /\ UNCHANGED <<tasksItem, weekItem, tasks>>
     ELSE IF dest = "future" THEN
       /\ \E r \in ClockReads :
            LET weekTasks == WeekWith(ParsedOr(weekItem, NoWeek), DayKey(r[1]),
                                      FutureTask(text, r[2]))
            IN /\ Len(weekTasks[Bucket(weekTasks, DayKey(r[1]))].entries) <= MaxTasks
               /\ weekItem' = JSONstringify(weekTasks)
               /\ ClockAfter(r)
       /\ Notify(c, TRUE)
       /\ tcall' = TCall("addTask", c, dest, "added")
       /\ UNCHANGED <<tasksItem, todayItem, tasks>>
     ELSE
       /\ Len(tasks[c]) < MaxTasks
       /\ tasks' = [tasks EXCEPT ![c] = Append(tasks[c], text)]
       /\ saveTasks(tasks'[c])
       /\ Notify(c, tasksItem' # tasksItem)
       /\ tcall' = TCall("addTask", c, dest, "added")
       /\ UNCHANGED <<todayItem, weekItem, clockVars>>

\* removeTaskElement(li, text) in context c
removeTaskElement(c, text) ==
  /\ tasks' = [tasks EXCEPT ![c] =
                 IF IndexOf(tasks[c], text) > 0
                   THEN Splice(tasks[c], IndexOf(tasks[c], text)) ELSE tasks[c]]
  /\ saveTasks(tasks'[c])
  /\ Notify(c, tasksItem' # tasksItem)
  /\ tcall' = TCall("removeTask", c, "local", "done")
  /\ UNCHANGED <<todayItem, weekItem, clockVars>>

\* a storage listener that takes the event and leaves the display as it is
StorageEventIgnored(c) ==
  /\ c \in pending
  /\ c \in open
  /\ pending' = pending \ {c}
  /\ tcall' = TCall("storage", c, "", "done")
  /\ UNCHANGED <<tasksItem, todayItem, weekItem, tasks, open, rate, clockVars>>

\* a storage listener that also reloads the in-memory tasks from the item tasks
StorageEventReloading(c) ==
  /\ c \in pending
  /\ c \in open
  /\ rate' = [rate EXCEPT ![c] = CompletionRate(todayItem)]
  /\ tasks' = [tasks EXCEPT ![c] = LoadedTasks(tasksItem, NoTasks)]
  /\ pending' = pending \ {c}
  /\ tcall' = TCall("storage", c, "", "done")
  /\ UNCHANGED <<tasksItem, todayItem, weekItem, open, clockVars>>

\* the storage listener of context c: updateCompletionRate
StorageEvent(c) ==
  /\ c \in pending
  /\ c \in open
  /\ rate' = [rate EXCEPT ![c] = CompletionRate(todayItem)]
  /\ pending' = pending \ {c}
  /\ tcall' = TCall("storage", c, "", "done")
  /\ UNCHANGED <<tasksItem, todayItem, weekItem, tasks, open, clockVars>>

\* what the task input field may hold
TaskInputs == {<<"a">>, <<" ", "b", " ">>, <<" ">>, <<>>}
Destinations == {"local", "today", "future"}

\* the dashboard loads in a browsing context
LoadTasks ==
  /\ \E c \in Contexts : PageLoad(c)
  /\ UNCHANGED loginVars

\* the entries of the week map, over all its buckets
RECURSIVE WeekCount(_)
WeekCount(weekTasks) ==
  IF weekTasks = <<>> THEN 0
    ELSE Len(Head(weekTasks).entries) + WeekCount(Tail(weekTasks))

\* the entries the three persisted collections hold together
StoredCount ==
  Len(ParsedOr(tasksItem, NoTasks)) + Len(ParsedOr(todayItem, NoTodos))
    + WeekCount(ParsedOr(weekItem, NoWeek))

\* the add button is clicked on a page with the selector taskDestination
AddTask ==
  /\ StoredCount < MaxRouted
  /\ \E c \in open, input \in TaskInputs, dest \in Destinations :
       addTask(c, input, dest)
  /\ UNCHANGED <<open, rate>>
  /\ UNCHANGED loginVars

\* the add button is clicked on a page without the selector taskDestination
AddLocalTask ==
  /\ \E c \in open, input \in TaskInputs : addTask(c, input, "local")
  /\ UNCHANGED <<open, rate>>
  /\ UNCHANGED loginVars

\* a task of the list is clicked
RemoveTask ==
  /\ \E c \in open :
       \E i \in 1..Len(tasks[c]) : removeTaskElement(c, tasks[c][i])
  /\ UNCHANGED <<open, rate>>
  /\ UNCHANGED loginVars

\* the texts a task can have: the inputs, trimmed
TaskTexts == {Trim(input) : input \in TaskInputs} \ {<<>>}

\* a direct call of removeTaskElement with any text
RemoveTaskElement ==
  /\ \E c \in open, text \in TaskTexts : removeTaskElement(c, text)
  /\ UNCHANGED <<open, rate>>
  /\ UNCHANGED loginVars

\* a storage event arrives
Storage ==
  /\ \E c \in Contexts : StorageEvent(c)
  /\ UNCHANGED loginVars

\* the dashboard loads in one tab
LoadDashboard ==
  /\ PageLoad("c1")
  /\ UNCHANGED loginVars

\* a calendar day passes
TaskTick ==
  /\ ticks > 0
  /\ now' = now + MS_PER_DAY
  /\ ticks' = ticks - 1
  /\ tcall' = TCall("tick", "", "", "done")
  /\ UNCHANGED <<tasksItem, todayItem, weekItem, tasks, open, rate, pending>>
  /\ UNCHANGED loginVars

\* the today page marks entry i of todayTodos completed, or not completed again;
\* every open dashboard gets a storage event
toggleCompleted(i) ==
  /\ todayItem' = JSONstringify([ParsedOr(todayItem, NoTodos) EXCEPT ![i].completed = ~@])
  /\ pending' = pending \cup open
  /\ tcall' = TCall("toggle", "", "today", "done")
  /\ UNCHANGED <<tasksItem, weekItem, tasks, open, rate, clockVars>>

\* the today page marks the first entry that is not completed
CompleteNext ==
  /\ \E i \in 1..Len(ParsedOr(todayItem, NoTodos)) :
       /\ ~ParsedOr(todayItem, NoTodos)[i].completed
       /\ \A j \in 1..(i - 1) : ParsedOr(todayItem, NoTodos)[j].completed
       /\ toggleCompleted(i)
  /\ UNCHANGED loginVars

\* a today list of total entries of which the first completed are completed
TodayList(completed, total) ==
  [i \in 1..total |-> [id |-> i, text |-> <<"a">>, completed |-> i <= completed,
                       priority |-> "normal", createdAt |-> i]]

\* the dashboard is about to load over a today list the today page has left
PercentInit ==
  /\ tasksItem = NoItem(NoTasks)
  /\ todayItem \in {NoItem(NoTodos), GarbageItem(NoTodos)}
                     \cup UNION {{JSONstringify(TodayList(completed, total)) :
                                    completed \in 0..total} : total \in 0..MaxToday}
  /\ weekItem = NoItem(NoWeek)
  /\ tasks = [c \in Contexts |-> NoTasks]
  /\ open = {}
  /\ rate = [c \in Contexts |-> NoRate]
  /\ pending = {}
  /\ tcall = TCall("none", "", "", "none")

\* the today page marks any entry completed, or not completed again
ToggleCompleted ==
  /\ \E i \in 1..Len(ParsedOr(todayItem, NoTodos)) : toggleCompleted(i)
  /\ UNCHANGED loginVars

\* a tab adds a task to today
AddTodayTask ==
  /\ Len(ParsedOr(todayItem, NoTodos)) < MaxSynced
  /\ \E c \in open, input \in TaskInputs : addTask(c, input, "today")
  /\ UNCHANGED <<open, rate>>
  /\ UNCHANGED loginVars

\* two tabs are about to load the dashboard; no local task was ever saved
SyncInit ==
  /\ tasksItem = NoItem(NoTasks)
  /\ todayItem \in {NoItem(NoTodos), GarbageItem(NoTodos)}
  /\ weekItem = NoItem(NoWeek)
  /\ tasks = [c \in Contexts |-> NoTasks]
  /\ open = {}
  /\ rate = [c \in Contexts |-> NoRate]
  /\ pending = {}
  /\ tcall = TCall("none", "", "", "none")

TaskInit ==
  /\ tasksItem \in {NoItem(NoTasks), GarbageItem(NoTasks), ObjectItem(NoTasks)}
  /\ todayItem \in {NoItem(NoTodos), GarbageItem(NoTodos)}
  /\ weekItem \in {NoItem(NoWeek), GarbageItem(NoWeek)}
  /\ tasks = [c \in Contexts |-> NoTasks]
  /\ open = {}
  /\ rate = [c \in Contexts |-> NoRate]
  /\ pending = {}
  /\ tcall = TCall("none", "", "", "none")

\* the clock at the first page load, with the run's budget of advances
ClockInit(maxTicks) ==
  /\ now = 0
  /\ ticks = maxTicks

\* no dashboard is open: the task store is not touched
TaskIdle ==
  /\ tasksItem = NoItem(NoTasks)
  /\ todayItem = NoItem(NoTodos)
  /\ weekItem = NoItem(NoWeek)
  /\ tasks = [c \in Contexts |-> NoTasks]
  /\ open = {}
  /\ rate = [c \in Contexts |-> NoRate]
  /\ pending = {}
  /\ tcall = TCall("none", "", "", "none")

\* no login page is open: the session and the accounts are not touched
LoginIdle ==
  /\ authSession = NoItem(NoSessionData)
  /\ isAuthenticated = "absent"
  /\ appUsers = NoItem(NoUsers)
  /\ timers = <<>>
  /\ shown = {}
  /\ location = "to-do-project.html"
  /\ call = Call("none", "none", NoSessionData)


\* ------------------------------------------------------------------ claims
\* C1 (as the code has it): for every text that is non-empty after trimming,
\* addTask with destination local followed by loadTasks yields the calling
\* context's in-memory sequence before the addTask with the trimmed text
\* appended; that sequence is the persisted one unless another context wrote
\* the item tasks since this context loaded it.
C1_AddThenLoadAppendsToMemory ==
  [][\A c \in Contexts, input \in TaskInputs :
       (c \in open /\ Trim(input) # <<>> /\ addTask(c, input, "local"))
         => /\ LoadedTasks(tasksItem', tasks'[c]) = Append(tasks[c], Trim(input))
            /\ tasks'[c] = Append(tasks[c], Trim(input))]_vars

\* C1, a state in which it applies: a local add has put a text in the list a
\* second time and the persisted sequence is the in-memory one.
C1_Witness ==
  /\ tcall.op = "addTask"
  /\ tcall.dest = "local"
  /\ tcall.result = "added"
  /\ tasks[tcall.ctx] = << <<"a">>, <<"a">> >>
  /\ LoadedTasks(tasksItem, NoTasks) = tasks[tcall.ctx]

\* C1 as stated: after addTask(local) and loadTasks the text occurs exactly
\* once more than in the persisted sequence before, all other entries and
\* their order unchanged.
C1_Original ==
  [][\A c \in Contexts, input \in TaskInputs :
       (c \in open /\ Trim(input) # <<>> /\ addTask(c, input, "local"))
         => LET before == LoadedTasks(tasksItem, NoTasks)
                after == LoadedTasks(tasksItem', tasks'[c])
                text == Trim(input)
                Is(x) == x = text
                IsNot(x) == x # text
            IN /\ Len(SelectSeq(after, Is)) = Len(SelectSeq(before, Is)) + 1
               /\ SelectSeq(after, IsNot) = SelectSeq(before, IsNot)]_vars

\* C2 (as the code has it): getSession returns null and clears both items
\* when the persisted session's expiresAt < now, and returns the session,
\* leaving the store alone, when expiresAt >= now: at the boundary
\* expiresAt = now the session is still valid.
C2_ExpiryIsStrict ==
  [][(call'.op = "getSession" /\ authSession.kind = "json")
       => IF JSONparse(authSession).expiresAt < now
            THEN /\ call'.result = "expired"
                 /\ call'.ret = NoSessionData
                 /\ authSession'.kind = "absent"
                 /\ isAuthenticated' = "absent"
            ELSE /\ call'.result = "session"
                 /\ call'.ret = JSONparse(authSession)
                 /\ UNCHANGED <<authSession, isAuthenticated>>]_vars

\* C2, a state in which it applies: getSession has returned a session whose
\* expiresAt is the current time.
C2_Witness ==
  /\ call.op = "getSession"
  /\ call.result = "session"
  /\ call.ret.expiresAt = now
  /\ authSession = JSONstringify(call.ret)

\* C2 as stated: getSession returns null and clears the record whenever
\* expiresAt <= now, and returns the session only when expiresAt > now.
C2_Original ==
  [][(call'.op = "getSession" /\ authSession.kind = "json")
       => IF JSONparse(authSession).expiresAt <= now
            THEN /\ call'.result # "session"
                 /\ authSession'.kind = "absent"
            ELSE call'.result = "session"]_vars

\* C3 as stated: after every createSession a getSession returns a non-null
\* session, the one just written, and its expiresAt - loginTime is exactly
\* 86400000.
C3_Original ==
  call.op = "createSession"
    => /\ GetSessionResult(authSession, now) = "session"
       /\ JSONparse(authSession) = call.ret
       /\ call.ret.expiresAt - call.ret.loginTime = SESSION_TIMEOUT

\* C4: whenever getSession returns null for a persisted session that is
\* expired or unparseable, both authSession and isAuthenticated are absent
\* afterwards, and the unparseable one ends like the expired one: null, no error.
C4_EvictionClearsBothKeys ==
  [][(call'.op = "getSession" /\ authSession.kind # "absent" /\ call'.result # "session")
       => /\ authSession'.kind = "absent"
          /\ isAuthenticated' = "absent"
          /\ call'.ret = NoSessionData
          /\ call'.result \in {"expired", "corrupt"}
          /\ (authSession.kind = "garbage") = (call'.result = "corrupt")]_vars

\* C4, a state in which it applies: getSession has found the session expired
\* and no key is left.
C4_Witness ==
  /\ call.op = "getSession"
  /\ call.result = "expired"
  /\ authSession.kind = "absent"
  /\ isAuthenticated = "absent"

\* C5: in every reachable state isAuthenticated holds "true" if and only if
\* authSession is present.
C5_FlagMirrorsSession ==
  (isAuthenticated = "true") <=> (authSession.kind # "absent")

\* C5, a state in which it applies: createSession has written both keys.
C5_Witness ==
  /\ call.op = "createSession"
  /\ isAuthenticated = "true"
  /\ authSession.kind = "json"

\* C6: no two entries of appUsers have the same email, and a registration
\* whose email is that of an existing account appends nothing, creates no
\* session and, its other inputs being valid, shows the duplicate-email error.
C6_NoDuplicateEmail ==
  [][/\ \A i, j \in 1..Len(StoredUsers(appUsers')) :
          StoredUsers(appUsers')[i].email = StoredUsers(appUsers')[j].email => i = j
     /\ \A email \in Emails :
          ( /\ call'.op = "handleSignUp"
            /\ appUsers.kind = "json"
            /\ \E i \in 1..Len(appUsers.val) : appUsers.val[i].email = email )
          => \A name \in Names, password \in Passwords :
              \A confirmPassword \in {password, Str_other} :
               handleSignUp(name, email, password, confirmPassword)
              => /\ appUsers' = appUsers
                 /\ timers' = timers
                 /\ UNCHANGED <<authSession, isAuthenticated, location>>
                 /\ call'.result = "invalid"
                 /\ ( /\ Len(Trim(name)) >= 2
                      /\ validatePassword(password)
                      /\ password = confirmPassword )
                      => shown' = {ErrorMessage("signupEmailError",
                                                "Email already registered")}]_vars

\* C6, a state in which it applies: a registration has been refused as a
\* duplicate of a stored account.
C6_Witness ==
  /\ call.op = "handleSignUp"
  /\ call.result = "invalid"
  /\ shown = {ErrorMessage("signupEmailError", "Email already registered")}
  /\ Len(StoredUsers(appUsers)) >= 1

\* C7: handleSignUp checks name, email format, password policy, confirmation
\* and duplicate email in that order; it reports the error of the first check
\* that fails, exactly that one, and changes nothing else; when no check
\* fails it reports no error.
C7_FirstFailureWins ==
  [][\A name \in Names, email \in Emails, password \in Passwords :
       \A confirmPassword \in {password, Str_other} :
         (call'.op = "handleSignUp" /\ handleSignUp(name, email, password, confirmPassword))
           => LET failed ==
                    IF Len(Trim(name)) < 2
                      THEN {ErrorMessage("signupNameError", "Name must be at least 2 characters")}
                    ELSE IF ~validateEmail(email)
                      THEN {ErrorMessage("signupEmailError", "Please enter a valid email")}
                    ELSE IF ~validatePassword(password)
                      THEN {ErrorMessage("signupPasswordError", "Password must be at least 8 characters and include an uppercase letter, a number, and a special character")}
                    ELSE IF password # confirmPassword
                      THEN {ErrorMessage("signupConfirmError", "Passwords do not match")}
                    ELSE IF appUsers.kind = "json"
                            /\ \E i \in 1..Len(appUsers.val) : appUsers.val[i].email = email
                      THEN {ErrorMessage("signupEmailError", "Email already registered")}
                    ELSE {}
              IN IF failed # {}
                   THEN /\ shown' = failed
                        /\ call'.result = "invalid"
                        /\ UNCHANGED <<appUsers, timers>>
                   ELSE \A m \in shown' : m.success]_vars

\* C7, a state in which it applies: the first three checks passed and the
\* confirmation failed.
C7_Witness ==
  /\ call.op = "handleSignUp"
  /\ call.result = "invalid"
  /\ shown = {ErrorMessage("signupConfirmError", "Passwords do not match")}

\* C8 as stated, up to the timer: a login with a well-formed email and a
\* non-empty password is not rejected and leaves the timer pending that
\* creates the session, under the account's name on a match and under the
\* part of the email before the at sign otherwise.
C8_Original ==
  [][\A email \in Emails, password \in Passwords :
       (validateEmail(email) /\ handleLogin(email, password))
         => /\ call'.result = "ok"
            /\ \E n \in {BeforeAt(email)}
                     \cup {StoredUsers(appUsers)[i].name : i \in 1..Len(StoredUsers(appUsers))} :
                 timers' = Append(timers, Timer(email, n, now))]_vars

\* C9 as stated, up to the timer: a registration that passes all validations
\* appends exactly one account with the given name and email to the end of
\* appUsers, leaves the others alone and leaves the timer pending that
\* creates the session.
C9_Original ==
  [][\A name \in Names, email \in Emails, password \in Passwords :
       ( /\ handleSignUp(name, email, password, password)
         /\ Len(Trim(name)) >= 2
         /\ validateEmail(email)
         /\ validatePassword(password)
         /\ ~ParseThrows(appUsers)
         /\ \A i \in 1..Len(StoredUsers(appUsers)) : StoredUsers(appUsers)[i].email # email )
         => /\ appUsers'.kind = "json"
            /\ Len(JSONparse(appUsers')) = Len(StoredUsers(appUsers)) + 1
            /\ SubSeq(JSONparse(appUsers'), 1, Len(StoredUsers(appUsers))) = StoredUsers(appUsers)
            /\ JSONparse(appUsers')[Len(JSONparse(appUsers'))].email = email
            /\ JSONparse(appUsers')[Len(JSONparse(appUsers'))].name = name
            /\ Len(timers') = Len(timers) + 1]_vars

\* C10 as stated, for the item appUsers: handleLogin and handleSignUp, run
\* over an unparseable appUsers, complete without raising an error.
C10_Original ==
  [][(ParseThrows(appUsers) /\ call'.op \in {"handleLogin", "handleSignUp"})
       => call'.result # "throw"]_vars

\* The session manager: logins, the redirect timers and the session's readers
\* and writers.
SessionNext ==
  \/ HandleLogin
  \/ TimerFire
  \/ GetSession
  \/ ClearSession
  \/ CheckAuthOnLoad
  \/ Logout
  \/ Tick
  \/ Wait

SessionInit == ClockInit(MaxTicks) /\ LoginInit /\ TaskIdle

SpecSession == SessionInit /\ [][SessionNext]_vars

\* The credential store: signups and logins with their redirect timers.
AuthNext ==
  \/ HandleSignUp
  \/ HandleLogin
  \/ TimerFire
  \/ Wait

AuthInit == ClockInit(MaxAuthTicks) /\ LoginInit /\ TaskIdle

SpecAuth == AuthInit /\ [][AuthNext]_vars

\* C11 as stated: whenever the persisted tasks value is no valid JSON array of
\* strings, loadTasks completes normally and leaves the in-memory sequence empty.
C11_Original ==
  (tcall.op = "loadTasks" /\ tasksItem.kind \in {"garbage", "object"})
    => /\ tcall.result = "done"
       /\ tasks[tcall.ctx] = NoTasks

\* C12: removeTaskElement(text) removes exactly the first occurrence of text
\* from the in-memory sequence, all other entries keeping their order, and
\* persists the result, so that the persisted tasks value is the in-memory
\* sequence; when text does not occur the sequence is unchanged.
C12_RemoveFirstOccurrence ==
  [][\A c \in Contexts, text \in TaskTexts :
       (c \in open /\ tcall'.op = "removeTask" /\ removeTaskElement(c, text))
         => /\ tasksItem'.kind = "json"
            /\ JSONparse(tasksItem') = tasks'[c]
            /\ IF \E i \in 1..Len(tasks[c]) : tasks[c][i] = text
                 THEN \E i \in 1..Len(tasks[c]) :
                        /\ tasks[c][i] = text
                        /\ \A j \in 1..(i - 1) : tasks[c][j] # text
                        /\ tasks'[c] = [k \in 1..(Len(tasks[c]) - 1) |->
                                          IF k < i THEN tasks[c][k] ELSE tasks[c][k + 1]]
                 ELSE tasks'[c] = tasks[c]]_vars

\* C12, a state in which it applies: the first of two equal texts, with another
\* between them, has been removed and the result persisted.
C12_Witness ==
  /\ tcall.op = "removeTask"
  /\ tasks[tcall.ctx] = << <<"b">>, <<"a">> >>
  /\ tasksItem = JSONstringify(tasks[tcall.ctx])

\* C13: addTask is a no-op when the text is empty or all whitespace: for every
\* destination the in-memory sequence and the persisted tasks, todayTodos and
\* weekTasks are unchanged and no error is raised.
C13_EmptyTextIsNoOp ==
  [][\A c \in Contexts, input \in TaskInputs, dest \in Destinations :
       ( /\ c \in open
         /\ \A i \in 1..Len(input) : input[i] \in SpaceChars
         /\ tcall'.op = "addTask"
         /\ addTask(c, input, dest) )
         => /\ UNCHANGED <<tasks, tasksItem, todayItem, weekItem>>
            /\ tcall'.result = "empty"]_vars

\* C13, a state in which it applies: an add with blank text, on the route
\* future, has left a non-empty store as it was.
C13_Witness ==
  /\ tcall.op = "addTask"
  /\ tcall.dest = "future"
  /\ tcall.result = "empty"
  /\ StoredCount > 0

\* C14: for destination future, addTask appends an entry with the trimmed
\* text and completed false at the end of the bucket of today's calendar date,
\* creating the bucket if absent; no day has two buckets and every other bucket
\* is unchanged, so two adds on one day give one bucket with both entries in
\* insertion order.
C14_FutureBucketAppend ==
  [][\A c \in Contexts, input \in TaskInputs :
       ( /\ c \in open
         /\ \E i \in 1..Len(input) : input[i] \notin SpaceChars
         /\ tcall'.op = "addTask"
         /\ addTask(c, input, "future") )
         => LET before == IF weekItem.kind = "json" THEN weekItem.val ELSE <<>>
                after == weekItem'.val
                today == now \div 86400000
                Entries(w, d) ==
                  IF \E i \in 1..Len(w) : w[i].day = d
                    THEN w[CHOOSE i \in 1..Len(w) : w[i].day = d].entries
                    ELSE <<>>
                Days(w) == {w[i].day : i \in 1..Len(w)}
            IN /\ weekItem'.kind = "json"
               /\ \A i, j \in 1..Len(after) : after[i].day = after[j].day => i = j
               /\ Days(after) = Days(before) \cup {today}
               /\ \A d \in Days(before) \ {today} : Entries(after, d) = Entries(before, d)
               /\ Len(Entries(after, today)) = Len(Entries(before, today)) + 1
               /\ SubSeq(Entries(after, today), 1, Len(Entries(before, today)))
                    = Entries(before, today)
               /\ Entries(after, today)[Len(Entries(after, today))].text = Trim(input)
               /\ Entries(after, today)[Len(Entries(after, today))].completed = FALSE]_vars

\* C14, a state in which it applies: after an add on the route future the week
\* map has an earlier day's bucket and one bucket of today with two entries in
\* insertion order.
C14_Witness ==
  /\ tcall.op = "addTask"
  /\ tcall.dest = "future"
  /\ tcall.result = "added"
  /\ weekItem.kind = "json"
  /\ Len(weekItem.val) = 2
  /\ weekItem.val[1].day # weekItem.val[2].day
  /\ weekItem.val[2].day = DayKey(now)
  /\ Len(weekItem.val[2].entries) = 2
  /\ weekItem.val[2].entries[1].text = <<"a">>
  /\ weekItem.val[2].entries[2].text = <<"b">>

\* C15: after updateCompletionRate has run, on load or on a storage event, the
\* dashboard shows completed = the number of entries of todayTodos with
\* completed true, total = the number of entries, and percent = 100 * completed
\* / total rounded to the nearest integer (halves up), 0 when total = 0, always
\* an integer of 0..100.
C15_Original ==
  (tcall.op \in {"loadTasks", "storage"} /\ tcall.result = "done") =>
    LET todayTodos == IF todayItem.kind = "json" THEN todayItem.val ELSE <<>>
        completed == Cardinality({i \in 1..Len(todayTodos) : todayTodos[i].completed})
        total == Len(todayTodos)
        shownRate == rate[tcall.ctx]
    IN /\ shownRate.completed = completed
       /\ shownRate.total = total
       /\ shownRate.percent \in 0..100
       /\ IF total = 0 THEN shownRate.percent = 0
          ELSE /\ ((2 * shownRate.percent) - 1) * total <= 200 * completed
               /\ 200 * completed < ((2 * shownRate.percent) + 1) * total


\* C16: when todayTodos has been written from elsewhere and the storage event
\* for it is waiting at an open dashboard, that dashboard eventually shows
\* the completed, total and percent of the todayTodos then persisted.
C16_EventuallyObserved ==
  \A c \in Contexts :
    (c \in open /\ c \in pending) ~> (rate[c] = CompletionRate(todayItem))

\* a storage event has been handled after the other writers left one of two
\* entries completed
C16_Witness ==
  /\ tcall.op = "storage"
  /\ todayItem.kind = "json"
  /\ Len(todayItem.val) = 2
  /\ Cardinality({i \in 1..2 : todayItem.val[i].completed}) = 1
  /\ rate[tcall.ctx] = [completed |-> 1, total |-> 2, percent |-> 50]


\* C17: addTask changes at most the collection of its destination: with local
\* only the item tasks and the in-memory tasks, with today only todayTodos,
\* with future only weekTasks; appUsers, authSession and isAuthenticated are
\* left as they are by all three.
C17_CollectionsNotMerged ==
  [][tcall'.op = "addTask" =>
       /\ UNCHANGED <<appUsers, authSession, isAuthenticated>>
       /\ tcall'.dest = "local" => UNCHANGED <<todayItem, weekItem>>
       /\ tcall'.dest = "today" => UNCHANGED <<tasksItem, weekItem, tasks>>
       /\ tcall'.dest = "future" => UNCHANGED <<tasksItem, todayItem, tasks>>]_vars

\* a task has been added to today while tasks and weekTasks hold one each
C17_Witness ==
  /\ tcall.op = "addTask" /\ tcall.dest = "today" /\ tcall.result = "added"
  /\ tasksItem.kind = "json" /\ Len(tasksItem.val) = 1
  /\ weekItem.kind = "json" /\ WeekCount(weekItem.val) = 1
  /\ todayItem.kind = "json" /\ Len(todayItem.val) = 1


\* C18: addTask with destination today and a text that is not blank leaves
\* todayTodos one entry longer: the entries persisted before, in their order,
\* and then one entry of the fields id, text, completed, priority and
\* createdAt, with the text as entered without its surrounding whitespace,
\* completed false, priority normal, and id and createdAt read from the clock.
C18_TodayAppendsOne ==
  [][\A c \in Contexts, input \in TaskInputs :
       (/\ tcall'.op = "addTask" /\ tcall'.dest = "today" /\ tcall'.result = "added"
        /\ addTask(c, input, "today")) =>
         LET before == IF todayItem.kind = "json" THEN todayItem.val ELSE <<>>
             after == todayItem'.val
             entry == after[Len(after)]
         IN /\ todayItem'.kind = "json"
            /\ Len(after) = Len(before) + 1
            /\ SubSeq(after, 1, Len(before)) = before
            /\ DOMAIN entry = {"id", "text", "completed", "priority", "createdAt"}
            /\ entry.text # <<>>
            /\ entry.text[1] \notin SpaceChars
            /\ entry.text[Len(entry.text)] \notin SpaceChars
            /\ \E i \in 1..Len(input) :
                 /\ SubSeq(input, i, i + Len(entry.text) - 1) = entry.text
                 /\ \A j \in 1..Len(input) :
                      (j < i \/ j >= i + Len(entry.text)) => input[j] \in SpaceChars
            /\ entry.completed = FALSE
            /\ entry.priority = "normal"
            /\ entry.id = now
            /\ entry.createdAt \in {now, now + 1}]_vars

\* a second task has been added to today, after a first of another text
C18_Witness ==
  /\ tcall.op = "addTask" /\ tcall.dest = "today" /\ tcall.result = "added"
  /\ todayItem.kind = "json"
  /\ Len(todayItem.val) = 2
  /\ todayItem.val[1].text = <<"a">>
  /\ todayItem.val[2].text = <<"b">>


\* C19: a run of updateCompletionRate by the storage listener leaves the items
\* tasks, todayTodos, weekTasks, appUsers, authSession and isAuthenticated and
\* the in-memory tasks of every tab as they were, however often it runs.
C19_CompletionRateIsPure ==
  [][tcall'.op = "storage" =>
       UNCHANGED <<tasksItem, todayItem, weekItem, appUsers, authSession,
                   isAuthenticated, tasks>>]_vars

\* the storage listener has run in a tab whose in-memory tasks are not the
\* persisted ones
C19_Witness ==
  /\ tcall.op = "storage"
  /\ tasksItem.kind = "json"
  /\ tasks[tcall.ctx] # <<>>
  /\ tasks[tcall.ctx] # tasksItem.val


\* C20: validatePassword accepts a password exactly when it has at least 8
\* characters and holds a lowercase letter, an uppercase letter, a digit and a
\* character that is neither a word character nor white space; it rejects
\* abcdefgh and accepts Abcdef1!.
C20_Original ==
  call.op = "validatePassword" =>
    LET password == call.ret
        policy ==
          /\ Len(password) >= 8
          /\ \E i \in 1..Len(password) : password[i] \in LowerChars
          /\ \E i \in 1..Len(password) : password[i] \in UpperChars
          /\ \E i \in 1..Len(password) : password[i] \in DigitChars
          /\ \E i \in 1..Len(password) :
               password[i] \notin (WordChars \cup SpaceChars)
    IN /\ (call.result = "valid") <=> policy
       /\ password = <<"a", "b", "c", "d", "e", "f", "g", "h">> => call.result = "invalid"
       /\ password = <<"A", "b", "c", "d", "e", "f", "1", "!">> => call.result = "valid"


\* C21: the entry addTask appends to todayTodos, or to weekTasks, has an id
\* that no entry already in that collection has, also when several are added
\* within one millisecond.
C21_Original ==
  [][(tcall'.op = "addTask" /\ tcall'.result = "added") =>
       /\ tcall'.dest = "today" =>
            LET before == IF todayItem.kind = "json" THEN todayItem.val ELSE <<>>
                after == todayItem'.val
            IN \A i \in 1..Len(before) : before[i].id # after[Len(after)].id
       /\ tcall'.dest = "future" =>
            LET before == IF weekItem.kind = "json" THEN weekItem.val ELSE <<>>
                after == weekItem'.val
                added == CHOOSE b \in 1..Len(after) :
                           b > Len(before) \/ Len(after[b].entries) > Len(before[b].entries)
                entry == after[added].entries[Len(after[added].entries)]
            IN \A b \in 1..Len(before) :
                 \A i \in 1..Len(before[b].entries) : before[b].entries[i].id # entry.id]_vars


\* C22: with two tabs on one store, a local addTask that adds a task, and a
\* removeTask, leave the item tasks equal to the in-memory tasks of the tab
\* that ran it: what the item held and that tab's memory does not hold is
\* gone from the item, whichever tab had saved it.
C22_LastWriteWins ==
  [][((tcall'.op = "addTask" /\ tcall'.dest = "local" /\ tcall'.result = "added")
        \/ tcall'.op = "removeTask") =>
       /\ tasksItem'.kind = "json"
       /\ tasksItem'.val = tasks'[tcall'.ctx]
       /\ \A c \in Contexts \ {tcall'.ctx} : tasks'[c] = tasks[c]
       /\ \A i \in 1..Len(ParsedOr(tasksItem, NoTasks)) :
            (\A j \in 1..Len(tasks'[tcall'.ctx]) :
               tasks'[tcall'.ctx][j] # ParsedOr(tasksItem, NoTasks)[i])
              => \A k \in 1..Len(tasksItem'.val) :
                   tasksItem'.val[k] # ParsedOr(tasksItem, NoTasks)[i]]_vars

\* a tab has added b and the item holds b alone, while the other tab still
\* holds the a it added
C22_Witness ==
  /\ tcall.op = "addTask" /\ tcall.result = "added"
  /\ tasks[tcall.ctx] = <<<<"b">>>>
  /\ tasksItem = JSONstringify(<<<<"b">>>>)
  /\ \E c \in Contexts \ {tcall.ctx} : c \in open /\ tasks[c] = <<<<"a">>>>


\* Registration alone: signups and the redirect timers they set.
SignUpNext ==
  \/ HandleSignUp
  \/ TimerFire
  \/ Wait

SignUpInit == ClockInit(MaxAuthTicks) /\ LoginInit /\ TaskIdle

SpecSignUp == SignUpInit /\ [][SignUpNext]_vars

\* The local task list: two browsing contexts run the dashboard over one store.
TaskNext ==
  \/ LoadTasks
  \/ AddLocalTask
  \/ RemoveTask
  \/ RemoveTaskElement
  \/ Storage

TasksInit == ClockInit(0) /\ TaskInit /\ LoginIdle

SpecTasks == TasksInit /\ [][TaskNext]_vars

\* The three task collections: one tab with the destination selector.
RoutingNext ==
  \/ LoadDashboard
  \/ AddTask
  \/ TaskTick

RoutingInit == ClockInit(MaxTaskTicks) /\ TaskInit /\ LoginIdle

SpecRouting == RoutingInit /\ [][RoutingNext]_vars

\* The completion tracker over the today lists the today page can leave.
PercentNext ==
  \/ LoadDashboard
  \/ CompleteNext
  \/ Storage

PercentStart == ClockInit(0) /\ PercentInit /\ LoginIdle

SpecPercent == PercentStart /\ [][PercentNext]_vars

\* Two dashboard tabs and the today page, all writing todayTodos.
SyncNext ==
  \/ LoadTasks
  \/ AddTodayTask
  \/ ToggleCompleted
  \/ Storage

SyncStart == ClockInit(0) /\ SyncInit /\ LoginIdle

SpecSync == SyncStart /\ [][SyncNext]_vars

\* The same, with every storage event waiting at an open dashboard delivered.
SpecSyncDelivered ==
  SpecSync /\ \A c \in Contexts : WF_vars(StorageEvent(c) /\ UNCHANGED loginVars)

\* The password policy over the passwords a sign-up form may hold.
PasswordNext == ValidatePassword

PasswordStart == ClockInit(0) /\ PasswordInit /\ TaskIdle

SpecPassword == PasswordStart /\ [][PasswordNext]_vars

====
